---- MODULE Spec2Model ----
(***************************************************************************)
(* A model of the copy-on-write file system engine of src/cowfs.cpp        *)
(* (class COWFileSystem): the inode table, the block array, the free-run   *)
(* list, the handle table, and the operations create, open, read, write,   *)
(* close, rollback_to_version and garbage_collect, each translated from    *)
(* its code.  Sizes are scaled down; byte values are small naturals and 0  *)
(* is the padding byte written by memset.                                  *)
(***************************************************************************)
EXTENDS Integers, Sequences, FiniteSets, TLC

\* ------------------------------------------------------------- sizes

\* Bytes per block (cowfs.hpp, scaled down).
BLOCK_SIZE == 2

\* Size of the inode table and of the handle table (cowfs.hpp, scaled down).
MAX_FILES == 2

\* Bytes of a name buffer, terminator included (cowfs.hpp, scaled down).
MAX_FILENAME_LENGTH == 2

\* total_blocks = disk_size / BLOCK_SIZE, a constructor argument.
TotalBlocks == 3

\* Longest buffer handed to write and largest count handed to read.
MaxLen == 3

\* Most calls made on one file system instance.
MaxCalls == 5

\* Payload bytes a caller writes (0 is the padding byte).
Bytes == {1, 2}

\* File names a caller passes (sequences of characters).
Names == {<<1>>, <<2>>}

Modes == {"READ", "WRITE"}

\* Version numbers a caller passes to rollback_to_version.
VersionInputs == {0, 1, 2, 3}

BlockIds == 0 .. (TotalBlocks - 1)
InodeIds == 0 .. (MAX_FILES - 1)
FdIds == 0 .. (MAX_FILES - 1)

\* fd_entry.inode == nullptr
NoInode == -1

Min(a, b) == IF a <= b THEN a ELSE b

RECURSIVE SeqsOfLen(_)
SeqsOfLen(n) ==
    IF n = 0 THEN {<<>>}
    ELSE {Append(s, b) : s \in SeqsOfLen(n - 1), b \in Bytes}

\* The buffers of 1 .. MaxLen payload bytes.
Buffers == UNION {SeqsOfLen(n) : n \in 1 .. MaxLen}

RECURSIVE Zeros(_)
Zeros(n) == IF n = 0 THEN <<>> ELSE Append(Zeros(n - 1), 0)

\* memset(block.data, 0, BLOCK_SIZE)
ZeroData == Zeros(BLOCK_SIZE)

VARIABLES
    inodes,            \* std::vector<Inode> inodes
    blocks,            \* std::vector<Block> blocks
    file_descriptors,  \* std::vector<FileDescriptor> file_descriptors
    free_blocks_list,  \* FreeBlockInfo* free_blocks_list, as a sequence of runs
    last,              \* the last call made and what it returned
    written,           \* per inode, what a whole-file read returned right
                       \* after each version-creating write still recorded
    calls              \* the number of calls made so far

vars ==
    <<inodes, blocks, file_descriptors, free_blocks_list, last, written,
      calls>>

\* ------------------------------------------------------- free-run list

\* merge_free_blocks: one pass that merges a run into its successor when
\* they touch; the current run is kept after a merge, advanced otherwise.
RECURSIVE MergeFrom(_, _)
MergeFrom(list, i) ==
    IF i >= Len(list) THEN list
    ELSE IF list[i].start_block + list[i].block_count = list[i + 1].start_block
         THEN MergeFrom(
                 SubSeq(list, 1, i - 1)
                 \o <<[start_block |-> list[i].start_block,
                       block_count |-> list[i].block_count
                                       + list[i + 1].block_count]>>
                 \o SubSeq(list, i + 2, Len(list)),
                 i)
         ELSE MergeFrom(list, i + 1)

merge_free_blocks(list) == IF list = <<>> THEN list ELSE MergeFrom(list, 1)

\* The position after which add_to_free_list links the new run.
RECURSIVE InsertPos(_, _, _)
InsertPos(list, start, cur) ==
    IF cur < Len(list) /\ list[cur + 1].start_block < start
    THEN InsertPos(list, start, cur + 1)
    ELSE cur

InsertAfter(list, pos, run) ==
    SubSeq(list, 1, pos) \o <<run>> \o SubSeq(list, pos + 1, Len(list))

add_to_free_list(list, start, count) ==
    LET run == [start_block |-> start, block_count |-> count]
        linked == IF list = <<>> \/ start < list[1].start_block
                  THEN <<run>> \o list
                  ELSE InsertAfter(list, InsertPos(list, start, 1), run)
    IN  merge_free_blocks(linked)

\* find_best_fit: index of the chosen run in the list, 0 for nullptr.
RECURSIVE BestFitFrom(_, _, _, _, _)
BestFitFrom(list, need, i, best, smallest) ==
    IF i > Len(list) THEN best
    ELSE IF list[i].block_count >= need
            /\ (best = 0 \/ list[i].block_count - need < smallest)
         THEN IF list[i].block_count - need = 0
              THEN i
              ELSE BestFitFrom(list, need, i + 1, i, list[i].block_count - need)
         ELSE BestFitFrom(list, need, i + 1, best, smallest)

\* A search that stops at the first run that is large enough: the variant
\* C23 has to tell apart from find_best_fit.
find_first_fit(list, need) ==
    LET fits == {i \in 1 .. Len(list) : list[i].block_count >= need}
    IN  IF fits = {} THEN 0 ELSE CHOOSE i \in fits : \A j \in fits : i <= j

find_best_fit(list, need) == BestFitFrom(list, need, 1, 0, 0)

RemoveAt(list, i) == SubSeq(list, 1, i - 1) \o SubSeq(list, i + 1, Len(list))

\* ------------------------------------------------------------- blocks

\* allocate_block on (blocks, free list): ok, the index, and both updated.
allocate_block(bl, fl) ==
    LET best == find_best_fit(fl, 1) IN
    IF best = 0
    THEN [ok |-> FALSE, index |-> 0, blocks |-> bl, free |-> fl]
    ELSE LET idx == fl[best].start_block
             fl2 == IF fl[best].block_count > 1
                    THEN [fl EXCEPT ![best] =
                             [start_block |-> @.start_block + 1,
                              block_count |-> @.block_count - 1]]
                    ELSE RemoveAt(fl, best)
         IN  [ok |-> TRUE, index |-> idx,
              blocks |-> [bl EXCEPT ![idx].is_used = TRUE,
                                    ![idx].next_block = 0,
                                    ![idx].ref_count = 0],
              free |-> fl2]

free_block(bl, idx) ==
    IF idx < TotalBlocks
    THEN [bl EXCEPT ![idx].is_used = FALSE, ![idx].next_block = 0]
    ELSE bl

RECURSIVE increment_block_refs(_, _)
increment_block_refs(bl, idx) ==
    IF idx # 0 /\ idx < TotalBlocks
    THEN increment_block_refs([bl EXCEPT ![idx].ref_count = @ + 1],
                              bl[idx].next_block)
    ELSE bl

\* decrement_block_refs: after a block is freed the walk moves to its saved
\* successor and then, by the statement that ends the loop body, one link
\* further; a block whose count is already 0 is stepped over.
RECURSIVE decrement_block_refs(_, _)
decrement_block_refs(bl, idx) ==
    IF idx # 0 /\ idx < TotalBlocks
    THEN IF bl[idx].ref_count > 0
         THEN IF bl[idx].ref_count - 1 = 0
              THEN LET nxt == bl[idx].next_block
                       bl2 == free_block([bl EXCEPT ![idx].ref_count = 0], idx)
                   IN  decrement_block_refs(bl2, bl2[nxt].next_block)
              ELSE [bl EXCEPT ![idx].ref_count = @ - 1]
         ELSE decrement_block_refs(bl, bl[idx].next_block)
    ELSE bl

\* --------------------------------------------------------------- read

\* The loop of read that skips whole blocks up to the cursor: the block
\* reached, or -1 where the code returns its error.
RECURSIVE SkipBlocks(_, _, _, _)
SkipBlocks(bl, cur, i, skipped) ==
    IF i < skipped /\ cur < TotalBlocks
    THEN LET nxt == bl[cur].next_block IN
         IF nxt >= TotalBlocks /\ i < skipped - 1
         THEN -1
         ELSE SkipBlocks(bl, nxt, i + 1, skipped)
    ELSE cur

\* The copying loop of read: the bytes copied so far are acc; the loop ends
\* when bytes_to_read bytes are copied or the index leaves the block array,
\* and fails on a block that is not in use.
RECURSIVE ReadLoop(_, _, _, _, _)
ReadLoop(bl, cur, off, remaining, acc) ==
    IF remaining > 0 /\ cur < TotalBlocks
    THEN IF ~bl[cur].is_used
         THEN [ret |-> -1, out |-> acc]
         ELSE LET chunk == Min(remaining, BLOCK_SIZE - off) IN
              ReadLoop(bl, bl[cur].next_block, 0, remaining - chunk,
                       acc \o SubSeq(bl[cur].data, off + 1, off + chunk))
    ELSE [ret |-> Len(acc), out |-> acc]

\* read past its handle checks, on inode record ino with the cursor at pos
\* and size bytes asked for: the value returned and the bytes copied out.
\* inode.size - pos is a size_t difference: with pos > size it wraps to a
\* value above every count a caller passes, so the minimum is size.
read_bytes(bl, ino, pos, size) ==
    IF ino.size = 0 THEN [ret |-> 0, out |-> <<>>]
    ELSE IF ino.first_block >= TotalBlocks \/ ~bl[ino.first_block].is_used
    THEN [ret |-> -1, out |-> <<>>]
    ELSE LET bytes_to_read == IF pos > ino.size THEN size
                              ELSE Min(size, ino.size - pos)
             start == SkipBlocks(bl, ino.first_block, 0, pos \div BLOCK_SIZE)
         IN  IF bytes_to_read = 0 THEN [ret |-> 0, out |-> <<>>]
             ELSE IF start = -1 \/ start >= TotalBlocks
             THEN [ret |-> -1, out |-> <<>>]
             ELSE ReadLoop(bl, start, pos % BLOCK_SIZE, bytes_to_read, <<>>)

\* What a fresh handle reads when it asks for the whole declared size.
ReadWhole(bl, ino) == read_bytes(bl, ino, 0, ino.size)

\* -------------------------------------------------------------- delta

\* A first loop that never advances: the variant C22 has to tell apart from
\* find_delta.
CommonPrefixNone(old, new, k) == k

\* Length of the common prefix, the first loop of find_delta.
RECURSIVE CommonPrefix(_, _, _)
CommonPrefix(old, new, k) ==
    IF k < Len(old) /\ k < Len(new) /\ old[k + 1] = new[k + 1]
    THEN CommonPrefix(old, new, k + 1)
    ELSE k

\* Length of the common suffix past delta_start, the second loop.
RECURSIVE CommonSuffix(_, _, _, _)
CommonSuffix(old, new, ds, k) ==
    IF k < Len(old) - ds /\ k < Len(new) - ds
       /\ old[Len(old) - k] = new[Len(new) - k]
    THEN CommonSuffix(old, new, ds, k + 1)
    ELSE k

find_delta(old, new) ==
    IF Len(old) = Len(new) /\ old = new
    THEN [delta_start |-> 0, delta_size |-> 0]
    ELSE LET ds == CommonPrefix(old, new, 0) IN
         IF ds = Len(new) /\ Len(new) < Len(old)
         THEN [delta_start |-> ds, delta_size |-> 0]
         ELSE IF ds = Len(old) /\ Len(new) > Len(old)
         THEN [delta_start |-> ds, delta_size |-> Len(new) - Len(old)]
         ELSE LET cs == CommonSuffix(old, new, ds, 0)
                  dz == (Len(new) - ds) - cs
              IN  [delta_start |-> ds,
                   delta_size |-> IF ds + dz > Len(new) THEN Len(new) - ds
                                  ELSE dz]

\* ---------------------------------------------------------- new chain

\* The clean-up of write_delta_blocks after a failed allocation: free each
\* block from first_block along the next links until index 0.
RECURSIVE FreeChain(_, _)
FreeChain(bl, idx) ==
    IF idx # 0 /\ idx < TotalBlocks
    THEN FreeChain(free_block(bl, idx), bl[idx].next_block)
    ELSE bl

\* One block's payload: the bytes copied and the zero fill after them.
BlockPayload(data) == data \o Zeros(BLOCK_SIZE - Len(data))

\* The allocation loop of write_delta_blocks at iteration i of needed, with
\* data the bytes not yet copied.
RECURSIVE ChainLoop(_, _, _, _, _, _, _)
ChainLoop(bl, fl, data, i, needed, first, prev) ==
    IF i < needed
    THEN LET a == allocate_block(bl, fl) IN
         IF ~a.ok
         THEN [ok |-> FALSE, first_block |-> 0,
               blocks |-> IF first # 0 THEN FreeChain(bl, first) ELSE bl,
               free |-> fl]
         ELSE LET cur == a.index
                  linked == IF i = 0 THEN a.blocks
                            ELSE [a.blocks EXCEPT ![prev].next_block = cur]
                  n == Min(Len(data), BLOCK_SIZE)
                  filled == [linked EXCEPT ![cur].data =
                                BlockPayload(SubSeq(data, 1, n))]
              IN  ChainLoop(filled, a.free, SubSeq(data, n + 1, Len(data)),
                            i + 1, needed, IF i = 0 THEN cur ELSE first, cur)
    ELSE [ok |-> TRUE, first_block |-> first,
          blocks |-> IF prev < TotalBlocks
                     THEN [bl EXCEPT ![prev].next_block = 0] ELSE bl,
          free |-> fl]

\* The bytes write_delta_blocks copies into the new chain: the buffer from
\* delta_start on (data = buffer + delta_start, actual_size bytes).
ChainSource(buffer, delta_start) ==
    SubSeq(buffer, delta_start + 1,
           delta_start + Min(Len(buffer) - delta_start, Len(buffer)))

write_delta_blocks(bl, fl, buffer, delta_start) ==
    IF Len(buffer) = 0 \/ delta_start >= Len(buffer)
    THEN [ok |-> TRUE, first_block |-> 0, blocks |-> bl, free |-> fl]
    ELSE LET src == ChainSource(buffer, delta_start)
             blocks_needed == (Len(src) + BLOCK_SIZE - 1) \div BLOCK_SIZE
         IN  ChainLoop(bl, fl, src, 0, blocks_needed, 0, 0)

\* ------------------------------------------------------ tables, calls

EmptyInode ==
    [is_used |-> FALSE, filename |-> <<>>, first_block |-> 0, size |-> 0,
     version_count |-> 0, version_history |-> <<>>]

EmptyBlock ==
    [is_used |-> FALSE, next_block |-> 0, ref_count |-> 0, data |-> ZeroData]

EmptyFd ==
    [inode |-> NoInode, mode |-> "READ", current_position |-> 0,
     is_valid |-> FALSE]

\* The record of one call: the operation, its handle, the buffer or name of
\* a call that succeeded, its number (the count asked of read, the version
\* asked of rollback_to_version, the versions a write appended), its mode,
\* the value returned and, for read, the bytes copied out.
Call(op, fd, arg, n, mode, ret, out) ==
    [op |-> op, fd |-> fd, arg |-> arg, n |-> n, mode |-> mode, ret |-> ret,
     out |-> out]

\* The state the constructor leaves on a fresh image: init_file_system,
\* add_to_free_list(0, total_blocks), and initialize_disk creating the file.
Init ==
    /\ inodes = [i \in InodeIds |-> EmptyInode]
    /\ blocks = [b \in BlockIds |-> EmptyBlock]
    /\ file_descriptors = [f \in FdIds |-> EmptyFd]
    /\ free_blocks_list = add_to_free_list(<<>>, 0, TotalBlocks)
    /\ last = Call("init", -1, <<>>, 0, "READ", 0, <<>>)
    /\ written = [i \in InodeIds |-> <<>>]
    /\ calls = 0

\* A lookup that never finds a name: the variant C19 has to tell apart from
\* create.
find_inode_none(ins, name) == NoInode

\* find_inode: the first in-use slot with the name, NoInode for nullptr.
find_inode(ins, name) ==
    LET hits == {i \in InodeIds : ins[i].is_used /\ ins[i].filename = name}
    IN  IF hits = {} THEN NoInode
        ELSE CHOOSE i \in hits : \A j \in hits : i <= j

\* allocate_file_descriptor: the lowest handle that is not valid, -1 if none.
allocate_file_descriptor(fds) ==
    LET free == {f \in FdIds : ~fds[f].is_valid}
    IN  IF free = {} THEN -1
        ELSE CHOOSE f \in free : \A g \in free : f <= g

\* A handle check that looks at the range only and not at is_valid: the
\* variant C16 and C18 have to tell apart from the operations.
ValidFdRangeOnly(fd) == fd \in FdIds

\* The handle check that opens read, write, close and rollback_to_version.
ValidFd(fd) == fd \in FdIds /\ file_descriptors[fd].is_valid

\* The slot create claims: the first inode that is not in use.
FirstFreeInode(ins) ==
    LET free == {i \in InodeIds : ~ins[i].is_used}
    IN  IF free = {} THEN NoInode
        ELSE CHOOSE i \in free : \A j \in free : i <= j

Create(name) ==
    LET slot == FirstFreeInode(inodes)
        fd == allocate_file_descriptor(file_descriptors)
        fresh == [EmptyInode EXCEPT !.filename = name, !.is_used = TRUE]
    IN
    /\ UNCHANGED <<blocks, free_blocks_list>>
    /\ IF Len(name) >= MAX_FILENAME_LENGTH
          \/ find_inode(inodes, name) # NoInode
          \/ slot = NoInode
       THEN /\ last' = Call("create", -1, <<>>, 0, "WRITE", -1, <<>>)
            /\ UNCHANGED <<inodes, file_descriptors, written>>
       ELSE IF fd < 0
       THEN /\ inodes' = [inodes EXCEPT ![slot] =
                             [fresh EXCEPT !.is_used = FALSE]]
            /\ written' = [written EXCEPT ![slot] = <<>>]
            /\ last' = Call("create", -1, <<>>, 0, "WRITE", -1, <<>>)
            /\ UNCHANGED file_descriptors
       ELSE /\ inodes' = [inodes EXCEPT ![slot] = fresh]
            /\ written' = [written EXCEPT ![slot] = <<>>]
            /\ file_descriptors' = [file_descriptors EXCEPT ![fd] =
                  [inode |-> slot, mode |-> "WRITE", current_position |-> 0,
                   is_valid |-> TRUE]]
            /\ last' = Call("create", fd, name, 0, "WRITE", fd, <<>>)

Open(name, mode) ==
    LET ino == find_inode(inodes, name)
        fd == allocate_file_descriptor(file_descriptors)
    IN
    /\ UNCHANGED <<inodes, blocks, free_blocks_list, written>>
    /\ IF ino = NoInode \/ fd < 0
       THEN /\ last' = Call("open", -1, <<>>, 0, mode, -1, <<>>)
            /\ UNCHANGED file_descriptors
       ELSE /\ file_descriptors' = [file_descriptors EXCEPT ![fd] =
                  [inode |-> ino, mode |-> mode, current_position |-> 0,
                   is_valid |-> TRUE]]
            /\ last' = Call("open", fd, name, 0, mode, fd, <<>>)

Read(fd, size) ==
    /\ UNCHANGED <<inodes, blocks, free_blocks_list, written>>
    /\ IF ~ValidFd(fd) \/ file_descriptors[fd].inode = NoInode
       THEN /\ last' = Call("read", fd, <<>>, size, "READ", -1, <<>>)
            /\ UNCHANGED file_descriptors
       ELSE LET e == file_descriptors[fd]
                r == read_bytes(blocks, inodes[e.inode], e.current_position,
                                size)
            IN  /\ file_descriptors' =
                      IF r.ret > 0
                      THEN [file_descriptors EXCEPT
                               ![fd].current_position = @ + r.ret]
                      ELSE file_descriptors
                /\ last' = Call("read", fd, <<>>, size, e.mode, r.ret, r.out)

Close(fd) ==
    /\ UNCHANGED <<inodes, blocks, free_blocks_list, written>>
    /\ IF ~ValidFd(fd)
       THEN /\ last' = Call("close", fd, <<>>, 0, "READ", -1, <<>>)
            /\ UNCHANGED file_descriptors
       ELSE /\ file_descriptors' =
                  [file_descriptors EXCEPT ![fd].is_valid = FALSE]
            /\ last' = Call("close", fd, <<>>, 0, "READ", 0, <<>>)

\* A write that skips find_delta and takes the whole buffer as the window
\* every time: the variant C5 has to tell apart from write.
WriteDeltaWholeBuffer(ino, old, buffer) ==
    [delta_start |-> 0, delta_size |-> Len(buffer)]

\* The window write works with: (0, size) for a first version or an empty
\* file, find_delta against the content read back otherwise.
WriteDelta(ino, old, buffer) ==
    IF ino.version_count = 0 \/ ino.size = 0
    THEN [delta_start |-> 0, delta_size |-> Len(buffer)]
    ELSE find_delta(old, buffer)

\* A VersionInfo numbered with the count before the write instead of the
\* count plus one: the variant C14 has to tell apart from write.
NewVersionStaleNumber(ino, buffer, first, d) ==
    [version_number |-> ino.version_count,
     size |-> Len(buffer),
     block_index |-> first,
     delta_start |-> d.delta_start,
     delta_size |-> d.delta_size,
     prev_version |-> IF ino.version_count > 0 THEN ino.version_count ELSE 0]

\* The VersionInfo write appends (the timestamp, a wall-clock string, is
\* left out).
NewVersion(ino, buffer, first, d) ==
    [version_number |-> ino.version_count + 1,
     size |-> Len(buffer),
     block_index |-> first,
     delta_start |-> d.delta_start,
     delta_size |-> d.delta_size,
     prev_version |-> IF ino.version_count > 0 THEN ino.version_count ELSE 0]

Write(fd, buffer) ==
    IF ~ValidFd(fd)
       \/ file_descriptors[fd].mode # "WRITE"
       \/ file_descriptors[fd].inode = NoInode
    THEN /\ last' = Call("write", fd, <<>>, 0, "WRITE", -1, <<>>)
         /\ UNCHANGED <<inodes, blocks, file_descriptors, free_blocks_list,
                        written>>
    ELSE IF Len(buffer) = 0
    THEN /\ last' = Call("write", fd, buffer, 0, "WRITE", 0, <<>>)
         /\ UNCHANGED <<inodes, blocks, file_descriptors, free_blocks_list,
                        written>>
    ELSE
    LET i == file_descriptors[fd].inode
        ino == inodes[i]
        \* read(fd, old_content, old_size) with the cursor moved to 0
        old == read_bytes(blocks, ino, 0, ino.size)
        d == WriteDelta(ino, old.out, buffer)
        w == write_delta_blocks(blocks, free_blocks_list, buffer,
                                d.delta_start)
    IN
    IF ino.version_count # 0 /\ ino.size > 0 /\ old.ret # ino.size
    THEN /\ last' = Call("write", fd, <<>>, 0, "WRITE", -1, <<>>)
         /\ UNCHANGED <<inodes, blocks, file_descriptors, free_blocks_list,
                        written>>
    ELSE IF d.delta_size = 0
    THEN /\ file_descriptors' =
               [file_descriptors EXCEPT ![fd].current_position = Len(buffer)]
         /\ last' = Call("write", fd, buffer, 0, "WRITE", Len(buffer), <<>>)
         /\ UNCHANGED <<inodes, blocks, free_blocks_list, written>>
    ELSE IF ~w.ok
    THEN /\ blocks' = w.blocks
         /\ free_blocks_list' = w.free
         /\ last' = Call("write", fd, <<>>, 0, "WRITE", -1, <<>>)
         /\ UNCHANGED <<inodes, file_descriptors, written>>
    ELSE
    LET v == NewVersion(ino, buffer, w.first_block, d)
        bl2 == increment_block_refs(w.blocks, w.first_block)
        ino2 == [ino EXCEPT !.version_history = Append(@, v),
                            !.first_block = w.first_block,
                            !.size = Len(buffer),
                            !.version_count = @ + 1]
    IN  /\ blocks' = bl2
        /\ free_blocks_list' = w.free
        /\ inodes' = [inodes EXCEPT ![i] = ino2]
        /\ file_descriptors' =
              [file_descriptors EXCEPT ![fd].current_position = Len(buffer)]
        /\ written' = [written EXCEPT ![i] = Append(@, ReadWhole(bl2, ino2))]
        /\ last' = Call("write", fd, buffer, 1, "WRITE", Len(buffer), <<>>)

\* A loop that keeps only the versions below the number asked and discards
\* the target with the later ones: the variant C15 has to tell apart from
\* rollback_to_version.
RECURSIVE RollbackLoopBelow(_, _, _, _, _)
RollbackLoopBelow(hist, k, version_number, kept, bl) ==
    IF k > Len(hist) THEN [kept |-> kept, blocks |-> bl]
    ELSE IF hist[k].version_number < version_number
    THEN RollbackLoopBelow(hist, k + 1, version_number,
                           Append(kept, hist[k]), bl)
    ELSE RollbackLoopBelow(hist, k + 1, version_number, kept,
                           IF hist[k].block_index < TotalBlocks
                           THEN decrement_block_refs(bl, hist[k].block_index)
                           ELSE bl)

\* The loop of rollback_to_version over the version list: the versions
\* kept, and the blocks after decrement_block_refs on each discarded one.
RECURSIVE RollbackLoop(_, _, _, _, _)
RollbackLoop(hist, k, version_number, kept, bl) ==
    IF k > Len(hist) THEN [kept |-> kept, blocks |-> bl]
    ELSE IF hist[k].version_number <= version_number
    THEN RollbackLoop(hist, k + 1, version_number, Append(kept, hist[k]), bl)
    ELSE RollbackLoop(hist, k + 1, version_number, kept,
                      IF hist[k].block_index < TotalBlocks
                      THEN decrement_block_refs(bl, hist[k].block_index)
                      ELSE bl)

\* A search that stops at the head of the list whatever number is asked:
\* the variant C13 and C20 have to tell apart from rollback_to_version.
FindVersionHead(hist, version_number) ==
    IF hist = <<>> THEN 0 ELSE 1

\* The first version of the list with the number, 0 for nullptr.
FindVersion(hist, version_number) ==
    LET hits == {k \in 1 .. Len(hist) :
                    hist[k].version_number = version_number}
    IN  IF hits = {} THEN 0 ELSE CHOOSE k \in hits : \A j \in hits : k <= j

\* rollback_to_version; target_version is read after the list is assigned
\* the kept versions, which leaves the entry it points at in place.
RollbackToVersion(fd, version_number) ==
    IF ~ValidFd(fd) \/ file_descriptors[fd].inode = NoInode
    THEN /\ last' = Call("rollback", fd, <<>>, version_number, "READ", 0,
                         <<>>)
         /\ UNCHANGED <<inodes, blocks, file_descriptors, free_blocks_list,
                        written>>
    ELSE
    LET e == file_descriptors[fd]
        i == e.inode
        ino == inodes[i]
        t == FindVersion(ino.version_history, version_number)
    IN
    IF version_number = 0 \/ version_number > ino.version_count \/ t = 0
    THEN /\ last' = Call("rollback", fd, <<>>, version_number, e.mode, 0,
                         <<>>)
         /\ UNCHANGED <<inodes, blocks, file_descriptors, free_blocks_list,
                        written>>
    ELSE
    LET r == RollbackLoop(ino.version_history, 1, version_number, <<>>,
                          blocks)
        target == ino.version_history[t]
    IN  /\ blocks' = r.blocks
        /\ inodes' = [inodes EXCEPT ![i] =
              [ino EXCEPT !.version_history = r.kept,
                          !.first_block = target.block_index,
                          !.size = target.size,
                          !.version_count = version_number]]
        /\ file_descriptors' = [file_descriptors EXCEPT
              ![fd].current_position =
                  IF e.mode = "WRITE" THEN target.size ELSE 0]
        /\ written' = [written EXCEPT ![i] = SubSeq(@, 1, Len(r.kept))]
        /\ last' = Call("rollback", fd, <<>>, version_number, e.mode, 1,
                        <<>>)
        /\ UNCHANGED free_blocks_list

\* The marking walk of garbage_collect along one version's chain.
RECURSIVE MarkChain(_, _, _)
MarkChain(bl, cur, used) ==
    IF cur # 0 /\ cur < TotalBlocks
    THEN MarkChain(bl, bl[cur].next_block,
                   IF bl[cur].ref_count > 0 THEN used \cup {cur} ELSE used)
    ELSE used

\* block_used after the marking phase, as the set of marked indices.
MarkedBlocks(ins, bl) ==
    UNION {UNION {MarkChain(bl, ins[i].version_history[k].block_index, {}) :
                     k \in 1 .. Len(ins[i].version_history)} :
              i \in {j \in InodeIds : ins[j].is_used}}

\* Length of the run of unmarked blocks that starts at start.
RECURSIVE RunLength(_, _, _)
RunLength(used, start, count) ==
    IF start + count < TotalBlocks /\ (start + count) \notin used
    THEN RunLength(used, start, count + 1)
    ELSE count

\* The sweep of garbage_collect from index start: every unmarked run is
\* cleared and handed to add_to_free_list, whatever the list already holds.
RECURSIVE Sweep(_, _, _, _)
Sweep(used, start, bl, fl) ==
    IF start >= TotalBlocks THEN [blocks |-> bl, free |-> fl]
    ELSE IF start \notin used
    THEN LET count == RunLength(used, start, 0)
             cleared == [b \in BlockIds |->
                            IF b >= start /\ b < start + count
                            THEN EmptyBlock ELSE bl[b]]
         IN  Sweep(used, start + count + 1, cleared,
                   IF count > 0 THEN add_to_free_list(fl, start, count)
                   ELSE fl)
    ELSE Sweep(used, start + 1, bl, fl)

GarbageCollect ==
    LET s == Sweep(MarkedBlocks(inodes, blocks), 0, blocks, free_blocks_list)
    IN  /\ blocks' = s.blocks
        /\ free_blocks_list' = merge_free_blocks(s.free)
        /\ last' = Call("garbage_collect", -1, <<>>, 0, "READ", 0, <<>>)
        /\ UNCHANGED <<inodes, file_descriptors, written>>

\* ------------------------------------------------------ specification

\* One call: the counter of calls bounds the run.
Step(op) == calls < MaxCalls /\ calls' = calls + 1 /\ op

Next ==
    \/ \E name \in Names : Step(Create(name))
    \/ \E name \in Names, mode \in Modes : Step(Open(name, mode))
    \/ \E fd \in FdIds, size \in 1 .. MaxLen : Step(Read(fd, size))
    \/ \E fd \in FdIds, buffer \in Buffers : Step(Write(fd, buffer))
    \/ \E fd \in FdIds : Step(Close(fd))
    \/ \E fd \in FdIds, v \in VersionInputs : Step(RollbackToVersion(fd, v))
    \/ Step(GarbageCollect)

Spec == Init /\ [][Next]_vars

\* Whether the last call returned success (rollback_to_version returns a
\* bool, every other call a negative value on failure).
Succeeded ==
    IF last.op = "rollback" THEN last.ret = 1 ELSE last.ret >= 0

\* One call that returns success.
StepSucc(op) == Step(op) /\ Succeeded'

\* The runs in which every call returns success.
NextSucc ==
    \/ \E name \in Names : StepSucc(Create(name))
    \/ \E name \in Names, mode \in Modes : StepSucc(Open(name, mode))
    \/ \E fd \in FdIds, size \in 1 .. MaxLen : StepSucc(Read(fd, size))
    \/ \E fd \in FdIds, buffer \in Buffers : StepSucc(Write(fd, buffer))
    \/ \E fd \in FdIds : StepSucc(Close(fd))
    \/ \E fd \in FdIds, v \in VersionInputs :
          StepSucc(RollbackToVersion(fd, v))
    \/ StepSucc(GarbageCollect)

SpecSucc == Init /\ [][NextSucc]_vars

\* ------------------------------------------------- terms of the claims

\* The inode a handle refers to.
InodeOf(fd) == inodes[file_descriptors[fd].inode]

\* The blocks of the chain that starts at head: head and every block
\* reached by next links up to the block whose next is 0.
RECURSIVE ChainFrom(_, _, _)
ChainFrom(bl, cur, seen) ==
    IF cur \notin BlockIds \/ cur \in seen THEN seen
    ELSE IF bl[cur].next_block = 0 THEN seen \cup {cur}
    ELSE ChainFrom(bl, bl[cur].next_block, seen \cup {cur})

\* The blocks on the chain of some version recorded in an in-use inode.
RecordedBlocks(ins, bl) ==
    UNION {UNION {ChainFrom(bl, ins[i].version_history[k].block_index, {}) :
                     k \in 1 .. Len(ins[i].version_history)} :
              i \in {j \in InodeIds : ins[j].is_used}}

\* The content of a file as a reader sees it: nothing before the first
\* version, the bytes of a whole-file read afterwards.
CurrentContent(bl, ino) ==
    IF ino.size = 0 THEN <<>> ELSE ReadWhole(bl, ino).out

\* The free runs that cover block b.
RunsCovering(fl, b) ==
    {k \in 1 .. Len(fl) :
        fl[k].start_block <= b /\ b < fl[k].start_block + fl[k].block_count}

\* C1: after a write of n > 0 bytes returns n, a read of n bytes from
\* cursor 0 of that inode (a fresh READ handle, or any handle at 0) returns
\* n and exactly the bytes written.
C1_ReadAfterWrite ==
    (last.op = "write" /\ last.ret > 0)
    => read_bytes(blocks, InodeOf(last.fd), 0, last.ret)
          = [ret |-> last.ret, out |-> last.arg]

\* C2: a successful write leaves every block on the chain of a version
\* recorded before the call (of any inode) with the same data, next link,
\* ref_count and in-use flag.
C2_WriteKeepsHistory ==
    [][(last'.op = "write" /\ last'.ret > 0)
       => \A b \in RecordedBlocks(inodes, blocks) : blocks'[b] = blocks[b]]_vars

\* C3: after rollback_to_version(fd, k) succeeds, a whole-file read returns
\* what it returned right after the k-th version-creating write.
C3_RollbackFidelity ==
    (last.op = "rollback" /\ last.ret = 1)
    => /\ last.n <= Len(written[file_descriptors[last.fd].inode])
       /\ ReadWhole(blocks, InodeOf(last.fd))
             = written[file_descriptors[last.fd].inode][last.n]

\* C4: a successful write of a non-empty buffer that differs from the
\* current content appends exactly one version record.
C4_DifferentContentAddsVersion ==
    [][\A fd \in FdIds, buffer \in Buffers :
          (/\ Step(Write(fd, buffer))
           /\ last'.ret > 0
           /\ buffer # CurrentContent(blocks, InodeOf(fd)))
          => Len(InodeOf(fd).version_history') =
                Len(InodeOf(fd).version_history) + 1]_vars

\* C5: a write on a valid WRITE handle of a buffer equal to the inode's
\* current content returns its length and changes neither an inode, nor a
\* block, nor the free-run list; of the handles only the cursor of the
\* handle written through changes, to that length.
C5_NoOpWrite ==
    [][\A fd \in FdIds, buffer \in Buffers :
          (/\ ValidFd(fd)
           /\ file_descriptors[fd].mode = "WRITE"
           /\ InodeOf(fd).size = Len(buffer)
           /\ ReadWhole(blocks, InodeOf(fd))
                 = [ret |-> Len(buffer), out |-> buffer]
           /\ Step(Write(fd, buffer)))
          => /\ last'.ret = Len(buffer)
             /\ inodes' = inodes
             /\ blocks' = blocks
             /\ free_blocks_list' = free_blocks_list
             /\ file_descriptors' =
                   [file_descriptors EXCEPT
                       ![fd].current_position = Len(buffer)]]_vars

\* A write of the current content has just returned without appending a
\* version, on a file that has one.
C5_Witness ==
    /\ last.op = "write" /\ last.ret > 0 /\ last.n = 0
    /\ InodeOf(last.fd).version_count > 0
    /\ ReadWhole(blocks, InodeOf(last.fd))
          = [ret |-> last.ret, out |-> last.arg]

\* C6: a write that fails leaves every inode as it was and no block in
\* use that was not in use before the call.
C6_FailedWriteReleases ==
    [][(last'.op = "write" /\ last'.ret < 0)
       => /\ inodes' = inodes
          /\ \A b \in BlockIds : blocks'[b].is_used => blocks[b].is_used]_vars

\* C7: garbage_collect changes what no reader can see: every in-use inode
\* reads the same whole-file content, and every block on a recorded
\* version's chain keeps its in-use flag and its data.
C7_GcChangesNothing ==
    [][last'.op = "garbage_collect"
       => /\ inodes' = inodes
          /\ \A i \in InodeIds :
                inodes[i].is_used
                => ReadWhole(blocks', inodes'[i]) = ReadWhole(blocks, inodes[i])
          /\ \A b \in RecordedBlocks(inodes, blocks) :
                /\ blocks'[b].is_used = blocks[b].is_used
                /\ blocks'[b].data = blocks[b].data]_vars

\* C8: every block is either in use and covered by no free run, or not in
\* use and covered by exactly one free run.
C8_Partition ==
    \A b \in BlockIds :
        Cardinality(RunsCovering(free_blocks_list, b))
            = IF blocks[b].is_used THEN 0 ELSE 1

\* C9: a block has ref_count > 0 exactly when it is on the chain of a
\* version recorded in an in-use inode.
C9_RefCountIffReachable ==
    \A b \in BlockIds :
        blocks[b].ref_count > 0 <=> b \in RecordedBlocks(inodes, blocks)

\* C10: the free-run list is strictly ascending by start, and consecutive
\* runs neither overlap nor touch.
C10_FreeListShape ==
    \A k \in 1 .. (Len(free_blocks_list) - 1) :
        free_blocks_list[k].start_block + free_blocks_list[k].block_count
            < free_blocks_list[k + 1].start_block

\* C11: when a successful rollback_to_version or a garbage_collect has just
\* completed, every block whose ref_count is 0 is not in use.
C11_ZeroRefNotInUse ==
    ((last.op = "rollback" /\ last.ret = 1) \/ last.op = "garbage_collect")
    => \A b \in BlockIds : blocks[b].ref_count = 0 => ~blocks[b].is_used

\* The blocks visited by following next links from head, in order, up to
\* and including the block whose next is 0.
RECURSIVE ChainWalk(_, _, _)
ChainWalk(bl, cur, acc) ==
    IF cur \notin BlockIds \/ Len(acc) >= TotalBlocks THEN acc
    ELSE IF bl[cur].next_block = 0 THEN Append(acc, cur)
    ELSE ChainWalk(bl, bl[cur].next_block, Append(acc, cur))

\* The data of the blocks of a walk, concatenated.
RECURSIVE ChainData(_, _)
ChainData(bl, walk) ==
    IF walk = <<>> THEN <<>>
    ELSE bl[walk[1]].data \o ChainData(bl, SubSeq(walk, 2, Len(walk)))

\* The version a version-creating write has just appended.
LastVersion(ino) == ino.version_history[Len(ino.version_history)]

\* C12: after a version-creating write of n bytes, the chain from the new
\* version's block_index has ceil(n / BLOCK_SIZE) blocks and its data, cut
\* to n bytes, is the buffer written.
C12_ChainHoldsWholeBuffer ==
    (last.op = "write" /\ last.n = 1)
    => LET walk == ChainWalk(blocks,
                             LastVersion(InodeOf(last.fd)).block_index, <<>>)
           n == Len(last.arg)
       IN  /\ Len(walk) = (n + BLOCK_SIZE - 1) \div BLOCK_SIZE
           /\ SubSeq(ChainData(blocks, walk), 1, n) = last.arg

\* C13: every in-use inode with at least one version has first_block and
\* size equal to the block_index and size of the last entry of its list.
C13_CurrentIsLastVersion ==
    \A i \in InodeIds :
        (inodes[i].is_used /\ inodes[i].version_history # <<>>)
        => /\ inodes[i].first_block = LastVersion(inodes[i]).block_index
           /\ inodes[i].size = LastVersion(inodes[i]).size

\* A rollback has just succeeded and left a discarded version's block
\* behind: released, its payload still in place.
C13_Witness ==
    /\ last.op = "rollback" /\ last.ret = 1
    /\ InodeOf(last.fd).version_history # <<>>
    /\ \E b \in BlockIds : ~blocks[b].is_used /\ blocks[b].data # ZeroData

\* C14: every in-use inode has version_count equal to the length of its
\* version list, and the k-th entry of the list has version_number k and
\* prev_version k - 1.
C14_VersionNumbering ==
    \A i \in InodeIds :
        inodes[i].is_used
        => /\ inodes[i].version_count = Len(inodes[i].version_history)
           /\ \A k \in 1 .. Len(inodes[i].version_history) :
                 /\ inodes[i].version_history[k].version_number = k
                 /\ inodes[i].version_history[k].prev_version = k - 1

\* A rollback to version 2 has just succeeded on a file that had a third
\* version, whose block it released.
C14_Witness ==
    /\ last.op = "rollback" /\ last.ret = 1 /\ last.n = 2
    /\ Len(InodeOf(last.fd).version_history) = 2
    /\ \E b \in BlockIds : ~blocks[b].is_used /\ blocks[b].data # ZeroData

\* C15: a rollback_to_version(fd, v) made right after the same call has
\* succeeded returns success and changes no inode, no block, no free run
\* and no handle.
C15_RollbackIdempotent ==
    [][\A fd \in FdIds, v \in VersionInputs :
          (/\ last.op = "rollback" /\ last.ret = 1
           /\ last.fd = fd /\ last.n = v
           /\ Step(RollbackToVersion(fd, v)))
          => /\ last'.ret = 1
             /\ inodes' = inodes
             /\ blocks' = blocks
             /\ free_blocks_list' = free_blocks_list
             /\ file_descriptors' = file_descriptors]_vars

\* A rollback to version 1 has just succeeded and released the block of the
\* second version it discarded, with a call left in which to repeat it.
C15_Witness ==
    /\ calls < MaxCalls
    /\ last.op = "rollback" /\ last.ret = 1 /\ last.n = 1
    /\ Len(InodeOf(last.fd).version_history) = 1
    /\ \E b \in BlockIds :
          /\ ~blocks[b].is_used /\ blocks[b].data # ZeroData
          /\ blocks[b].ref_count = 0

\* C16: rollback_to_version(fd, v) on a handle that is not valid, or with
\* v = 0, or with v above the inode's version_count, returns failure and
\* changes no inode, no block and no handle.
C16_RollbackRejects ==
    [][\A fd \in FdIds, v \in VersionInputs :
          (/\ \/ ~file_descriptors[fd].is_valid
              \/ v = 0
              \/ v > InodeOf(fd).version_count
           /\ Step(RollbackToVersion(fd, v)))
          => /\ last'.op = "rollback" /\ last'.ret = 0
             /\ inodes' = inodes
             /\ blocks' = blocks
             /\ file_descriptors' = file_descriptors]_vars

\* A rollback on a valid handle of a file with a version has just been
\* refused for a version number above version_count.
C16_Witness ==
    /\ last.op = "rollback" /\ last.ret = 0
    /\ file_descriptors[last.fd].is_valid
    /\ InodeOf(last.fd).version_count > 0
    /\ last.n > InodeOf(last.fd).version_count

\* ------------------------------------------------- reopening the image

\* A version record whose bytes are all zero.
ZeroVersion ==
    [version_number |-> 0, size |-> 0, block_index |-> 0, delta_start |-> 0,
     delta_size |-> 0, prev_version |-> 0]

\* The entries (inode, position) of the version lists of the image.
VersionSlots ==
    {s \in InodeIds \X (1 .. MaxCalls) :
        s[2] <= Len(inodes[s[1]].version_history)}

\* A version list as it is found after the raw read of an Inode: the
\* vector's pointers come back from the file and point at storage the
\* destructor released, so each record reads either as it was or as other
\* bytes (a zeroed record stands for those).
LoadedHistory(i, stale) ==
    LET old == inodes[i].version_history
        rec(k) == IF <<i, k>> \in stale THEN ZeroVersion ELSE old[k]
        build[k \in 0 .. Len(old)] ==
            IF k = 0 THEN <<>> ELSE Append(build[k - 1], rec(k))
    IN  build[Len(old)]

\* The destructor followed by the constructor on the image it wrote:
\* init_file_system, add_to_free_list(0, total_blocks), then
\* initialize_disk reading the inode table and the block array back.
Reopen ==
    /\ \E stale \in SUBSET VersionSlots :
          inodes' = [i \in InodeIds |->
                        [inodes[i] EXCEPT
                            !.version_history = LoadedHistory(i, stale)]]
    /\ blocks' = blocks
    /\ file_descriptors' = [f \in FdIds |-> EmptyFd]
    /\ free_blocks_list' = add_to_free_list(<<>>, 0, TotalBlocks)
    /\ last' = Call("reopen", -1, <<>>, 0, "READ", 0, <<>>)
    /\ UNCHANGED written

\* The operations on an engine that may be closed and opened again on its
\* image.
NextReopen ==
    \/ \E name \in Names : Step(Create(name))
    \/ \E name \in Names, mode \in Modes : Step(Open(name, mode))
    \/ \E fd \in FdIds, size \in 1 .. MaxLen : Step(Read(fd, size))
    \/ \E fd \in FdIds, buffer \in Buffers : Step(Write(fd, buffer))
    \/ \E fd \in FdIds : Step(Close(fd))
    \/ \E fd \in FdIds, v \in VersionInputs : Step(RollbackToVersion(fd, v))
    \/ Step(GarbageCollect)
    \/ Step(Reopen)

SpecReopen == Init /\ [][NextReopen]_vars

\* C17: right after the engine is opened on an existing image, every block
\* that is in use is covered by no free run and every other block by
\* exactly one, and the runs are ascending and coalesced.
C17_ReopenRebuildsFreeList ==
    last.op = "reopen"
    => /\ \A b \in BlockIds :
             Cardinality(RunsCovering(free_blocks_list, b))
                 = IF blocks[b].is_used THEN 0 ELSE 1
       /\ \A k \in 1 .. (Len(free_blocks_list) - 1) :
             free_blocks_list[k].start_block
                 + free_blocks_list[k].block_count
                 < free_blocks_list[k + 1].start_block

\* Whether the last call returned an error.
Failed == IF last.op = "rollback" THEN last.ret = 0 ELSE last.ret < 0

\* C18: create and open return the lowest handle that is not valid and make
\* it valid; close on a valid handle returns 0, makes it not valid and
\* changes no inode and no block; read, write, rollback_to_version and close
\* on a handle that is not valid return an error; and a handle becomes valid
\* only by being returned from create or open.
C18_HandleLifecycle ==
    [][/\ (last'.op \in {"create", "open"} /\ last'.ret >= 0)
          => /\ last'.ret \in FdIds
             /\ ~file_descriptors[last'.ret].is_valid
             /\ \A f \in FdIds :
                   f < last'.ret => file_descriptors[f].is_valid
             /\ file_descriptors'[last'.ret].is_valid
       /\ (last'.op = "close" /\ file_descriptors[last'.fd].is_valid)
          => /\ last'.ret = 0
             /\ ~file_descriptors'[last'.fd].is_valid
             /\ inodes' = inodes
             /\ blocks' = blocks
       /\ (/\ last'.op \in {"read", "write", "rollback", "close"}
           /\ ~file_descriptors[last'.fd].is_valid)
          => /\ Failed'
             /\ ~file_descriptors'[last'.fd].is_valid
       /\ \A f \in FdIds :
             (~file_descriptors[f].is_valid /\ file_descriptors'[f].is_valid)
             => (last'.op \in {"create", "open"} /\ last'.ret = f)]_vars

\* An open has just returned handle 0 while handle 1 is valid: handle 0 was
\* handed out, closed, and handed out again.
C18_Witness ==
    /\ last.op = "open" /\ last.ret = 0
    /\ file_descriptors[0].is_valid
    /\ file_descriptors[1].is_valid

\* ------------------------------------------------------ creating files

\* The names of the runs that fill the inode table: a third name that fits
\* the name buffer and one that does not.
AllNames == Names \cup {<<3>>, <<1, 1>>}

\* The calls that claim inodes and claim and release handles.
NextCreate ==
    \/ \E name \in AllNames : Step(Create(name))
    \/ \E name \in AllNames, mode \in Modes : Step(Open(name, mode))
    \/ \E fd \in FdIds : Step(Close(fd))

SpecCreate == Init /\ [][NextCreate]_vars

\* The in-use inodes have pairwise distinct names.
NamesDistinct ==
    \A i, j \in InodeIds :
        (inodes[i].is_used /\ inodes[j].is_used /\ i # j)
        => inodes[i].filename # inodes[j].filename

\* C19: after every call the names of the in-use inodes are pairwise
\* distinct, and a create that fails leaves the same inodes in use under
\* the same names.
C19_DistinctNames ==
    [][/\ NamesDistinct'
       /\ (last'.op = "create" /\ last'.ret < 0)
          => \A i \in InodeIds :
                /\ inodes'[i].is_used = inodes[i].is_used
                /\ inodes[i].is_used
                   => inodes'[i].filename = inodes[i].filename]_vars

\* A create has just failed for want of a free handle, after it had written
\* the name into the slot it then gave back.
C19_Witness ==
    /\ last.op = "create" /\ last.ret < 0
    /\ \E i \in InodeIds : ~inodes[i].is_used /\ inodes[i].filename # <<>>
    /\ \E j \in InodeIds : inodes[j].is_used

\* C20: a rollback_to_version(fd, v) that succeeds leaves the inode with
\* the first v entries of its version list, first_block and size those of
\* entry v and version_count v, and the handle's cursor at that size for a
\* WRITE handle and at 0 for a READ handle.
C20_RollbackEffects ==
    [][(last'.op = "rollback" /\ last'.ret = 1)
       => LET fd == last'.fd
              v == last'.n
              i == file_descriptors[fd].inode
              hist == inodes[i].version_history
          IN  /\ v \in 1 .. Len(hist)
              /\ inodes'[i].version_history = SubSeq(hist, 1, v)
              /\ inodes'[i].first_block = hist[v].block_index
              /\ inodes'[i].size = hist[v].size
              /\ inodes'[i].version_count = v
              /\ file_descriptors'[fd].current_position =
                    IF file_descriptors[fd].mode = "WRITE"
                    THEN hist[v].size ELSE 0]_vars

\* A rollback to version 1 through a READ handle has just succeeded on a
\* file that had a second version, whose block it released.
C20_Witness ==
    /\ last.op = "rollback" /\ last.ret = 1 /\ last.n = 1
    /\ last.mode = "READ"
    /\ file_descriptors[last.fd].current_position = 0
    /\ Len(written[file_descriptors[last.fd].inode]) = 1
    /\ \E b \in BlockIds :
          /\ ~blocks[b].is_used /\ blocks[b].data # ZeroData
          /\ b # InodeOf(last.fd).first_block

\* -------------------------------------------------------- memory usage

\* get_total_memory_usage: BLOCK_SIZE for every block in use.
get_total_memory_usage(bl) ==
    BLOCK_SIZE * Cardinality({b \in BlockIds : bl[b].is_used})

\* The blocks on the chains of the versions of inode record ino above
\* version number v.
DiscardedBlocks(ino, bl, v) ==
    UNION {ChainFrom(bl, ino.version_history[k].block_index, {}) :
              k \in {j \in 1 .. Len(ino.version_history) :
                        ino.version_history[j].version_number > v}}

\* C21: when a successful rollback discards versions whose chains hold only
\* in-use blocks of ref_count 1, every block of those chains ends with
\* ref_count 0 and not in use, and get_total_memory_usage is BLOCK_SIZE
\* times the number of blocks on the chains of the versions still recorded.
C21_RollbackReleasesChain ==
    [][(last'.op = "rollback" /\ last'.ret = 1)
       => LET ino == InodeOf(last'.fd)
              gone == DiscardedBlocks(ino, blocks, last'.n)
          IN  (/\ gone # {}
               /\ \A b \in gone :
                     blocks[b].ref_count = 1 /\ blocks[b].is_used)
              => /\ \A b \in gone :
                       /\ blocks'[b].ref_count = 0
                       /\ ~blocks'[b].is_used
                 /\ get_total_memory_usage(blocks') =
                       BLOCK_SIZE
                       * Cardinality(RecordedBlocks(inodes', blocks'))]_vars

\* ------------------------------------------------- find_delta by itself

\* Longest buffer handed to find_delta.
MaxDeltaLen == 4

\* The buffers of 1 .. MaxDeltaLen payload bytes.
DeltaBuffers == UNION {SeqsOfLen(n) : n \in 1 .. MaxDeltaLen}

\* An engine at rest and a pair of buffers (old in arg, new in out) on which
\* find_delta is about to be called.
InitDelta ==
    /\ inodes = [i \in InodeIds |-> EmptyInode]
    /\ blocks = [b \in BlockIds |-> EmptyBlock]
    /\ file_descriptors = [f \in FdIds |-> EmptyFd]
    /\ free_blocks_list = add_to_free_list(<<>>, 0, TotalBlocks)
    /\ \E old \in DeltaBuffers, new \in DeltaBuffers :
          last = Call("find_delta_args", -1, old, 0, "READ", 0, new)
    /\ written = [i \in InodeIds |-> <<>>]
    /\ calls = 0

\* find_delta(old, new): delta_start is recorded in n and delta_size in ret.
FindDelta ==
    /\ last.op = "find_delta_args"
    /\ LET d == find_delta(last.arg, last.out)
       IN  last' = Call("find_delta", -1, last.arg, d.delta_start, "READ",
                        d.delta_size, last.out)
    /\ calls' = calls + 1
    /\ UNCHANGED <<inodes, blocks, file_descriptors, free_blocks_list,
                   written>>

NextDelta == FindDelta

SpecDelta == InitDelta /\ [][NextDelta]_vars

\* C22: find_delta(old, new) returns a window inside new; new agrees with
\* old before the window, and after it with the equally long tail of old;
\* delta_start is the length of the common prefix when the buffers differ,
\* and the window is (0, 0) when they are equal.
C22_DeltaWindow ==
    last.op = "find_delta"
    => LET old == last.arg
           new == last.out
           ds == last.n
           dz == last.ret
           tail == Len(new) - (ds + dz)
       IN  /\ ds >= 0 /\ dz >= 0 /\ ds + dz <= Len(new)
           /\ ds <= Len(old)
           /\ SubSeq(new, 1, ds) = SubSeq(old, 1, ds)
           /\ tail <= Len(old)
           /\ SubSeq(new, ds + dz + 1, Len(new))
                 = SubSeq(old, Len(old) - tail + 1, Len(old))
           /\ old # new
              => \/ ds = Len(old)
                 \/ ds = Len(new)
                 \/ old[ds + 1] # new[ds + 1]
           /\ old = new => (ds = 0 /\ dz = 0)

\* find_delta has returned a window with bytes of new before it and after
\* it.
C22_Witness ==
    /\ last.op = "find_delta"
    /\ last.n > 0 /\ last.ret > 0
    /\ last.n + last.ret < Len(last.out)

\* The runs the best fit for one block may be: a count of at least 1, no
\* run with a smaller such count, the lowest start among equal counts.
BestFitRuns(fl) ==
    {k \in 1 .. Len(fl) :
        /\ fl[k].block_count >= 1
        /\ \A j \in 1 .. Len(fl) :
              fl[j].block_count >= 1
              => \/ fl[j].block_count > fl[k].block_count
                 \/ /\ fl[j].block_count = fl[k].block_count
                    /\ fl[j].start_block >= fl[k].start_block}

\* The blocks a version-creating write allocated: the bytes from the new
\* version's delta_start on, in blocks of BLOCK_SIZE.
BlocksAllocated(v) ==
    (v.size - v.delta_start + BLOCK_SIZE - 1) \div BLOCK_SIZE

\* C23: allocate_block takes the start of the best-fit run for one block,
\* advances that run (unlinks it at count 0), leaves the other runs alone and
\* marks the block in use with next 0 and ref_count 0; it fails, changing
\* nothing, only when no run has a block.  Checked on the allocation every
\* write starts with.
C23_AllocateBestFit ==
    [][(last'.op = "write" /\ file_descriptors[last'.fd].is_valid
        /\ file_descriptors[last'.fd].mode = "WRITE")
       => LET fl == free_blocks_list
              a == allocate_block(blocks, fl)
              v == LastVersion(inodes'[file_descriptors[last'.fd].inode])
          IN  /\ BestFitRuns(fl) = {}
                 => /\ ~a.ok /\ a.blocks = blocks /\ a.free = fl
                    /\ last'.n = 0
                    /\ free_blocks_list' = fl
              /\ BestFitRuns(fl) # {}
                 => /\ a.ok
                    /\ \E k \in BestFitRuns(fl) :
                          /\ a.index = fl[k].start_block
                          /\ a.free =
                                IF fl[k].block_count > 1
                                THEN [fl EXCEPT ![k] =
                                        [start_block |-> @.start_block + 1,
                                         block_count |-> @.block_count - 1]]
                                ELSE RemoveAt(fl, k)
                    /\ a.blocks = [blocks EXCEPT ![a.index] =
                                     [is_used |-> TRUE, next_block |-> 0,
                                      ref_count |-> 0, data |-> @.data]]
                    /\ last'.n = 1
                       => /\ v.block_index = a.index
                          /\ blocks'[a.index].is_used
                          /\ BlocksAllocated(v) = 1
                             => /\ free_blocks_list' = a.free
                                /\ blocks'[a.index].next_block = 0]_vars

\* A write has taken its one block from a run that is not the head of the
\* free list, and the rest of that run is still behind the head.
C23_Witness ==
    /\ last.op = "write" /\ last.n = 1
    /\ LET v == LastVersion(InodeOf(last.fd))
       IN  /\ BlocksAllocated(v) = 1
           /\ \E k \in 2 .. Len(free_blocks_list) :
                 free_blocks_list[k].start_block = v.block_index + 1

\* The blocks of walk that a read of need bytes from cursor c visits.
Visited(walk, c, need) ==
    {walk[j] : j \in {k \in 1 .. Len(walk) :
                         /\ k > c \div BLOCK_SIZE
                         /\ (k - 1) * BLOCK_SIZE < c + need}}

\* C24: a read that needs bytes beyond the end of the current version's
\* chain (next 0 before the declared size is covered), or that visits a
\* block of the chain that is not in use, returns a negative error and
\* copies out no more bytes than the chain holds from the cursor on.
C24_ReadRejectsShortChain ==
    [][(/\ last'.op = "read"
        /\ file_descriptors[last'.fd].is_valid
        /\ InodeOf(last'.fd).size > 0
        /\ file_descriptors[last'.fd].current_position
              <= InodeOf(last'.fd).size)
       => LET ino == InodeOf(last'.fd)
              c == file_descriptors[last'.fd].current_position
              need == Min(last'.n, ino.size - c)
              walk == ChainWalk(blocks, ino.first_block, <<>>)
              held == Len(walk) * BLOCK_SIZE
          IN  (/\ need > 0
               /\ \/ c + need > held
                  \/ \E b \in Visited(walk, c, need) : ~blocks[b].is_used)
              => /\ last'.ret < 0
                 /\ Len(last'.out) <= IF held > c THEN held - c ELSE 0]_vars

\* C25: on a file whose current version is the one its first write created
\* with content P, a read of max bytes through a handle with cursor
\* c <= size returns d = min(max, size - c), copies out P[c .. c + d) and
\* advances the cursor by d (0 and no move at c = size); and the first write
\* itself leaves the whole P readable from cursor 0.
C25_ReadCursor ==
    [][/\ (last'.op = "write" /\ last'.n = 1
           /\ InodeOf(last'.fd).version_count = 0)
          => written'[file_descriptors[last'.fd].inode]
                = <<[ret |-> Len(last'.arg), out |-> last'.arg]>>
       /\ (/\ last'.op = "read"
           /\ file_descriptors[last'.fd].is_valid
           /\ Len(InodeOf(last'.fd).version_history) = 1
           /\ file_descriptors[last'.fd].current_position
                 <= InodeOf(last'.fd).size)
          => LET i == file_descriptors[last'.fd].inode
                 P == written[i][1].out
                 c == file_descriptors[last'.fd].current_position
                 d == Min(last'.n, inodes[i].size - c)
             IN  /\ Len(P) = inodes[i].size
                 /\ last'.ret = d
                 /\ last'.out = SubSeq(P, c + 1, c + d)
                 /\ file_descriptors' =
                       [file_descriptors EXCEPT
                           ![last'.fd].current_position = c + d]]_vars

\* C26: block 0 is on no user chain: no recorded version of size > 0 has
\* block_index 0, and allocate_block does not hand out block 0.
C26_BlockZeroReserved ==
    /\ \A i \in InodeIds :
          inodes[i].is_used
          => \A k \in 1 .. Len(inodes[i].version_history) :
                inodes[i].version_history[k].size > 0
                => inodes[i].version_history[k].block_index # 0
    /\ LET a == allocate_block(blocks, free_blocks_list)
       IN  a.ok => a.index # 0

\* C27: every valid handle that refers to a file has its cursor within the
\* file, current_position <= size, so that size - current_position in read
\* does not wrap; and a read returns no more than size - cursor bytes.
C27_CursorWithinSize ==
    [][/\ \A fd \in FdIds :
             (file_descriptors'[fd].is_valid
              /\ file_descriptors'[fd].inode # NoInode)
             => file_descriptors'[fd].current_position
                   <= inodes'[file_descriptors'[fd].inode].size
       /\ (last'.op = "read" /\ last'.ret > 0)
          => /\ file_descriptors[last'.fd].current_position
                   <= InodeOf(last'.fd).size
             /\ last'.ret <= InodeOf(last'.fd).size
                                - file_descriptors[last'.fd].current_position]_vars

\* C28: no double allocation.  allocate_block hands out no block that is in
\* use, a write takes no block that a recorded version of another chain
\* holds, and garbage_collect leaves no block covered by two free runs.
C28_NoDoubleAllocation ==
    [][/\ LET a == allocate_block(blocks, free_blocks_list)
          IN  a.ok => ~blocks[a.index].is_used
       /\ (last'.op = "write" /\ last'.n = 1)
          => LET v == LastVersion(inodes'[file_descriptors[last'.fd].inode])
             IN  ChainFrom(blocks', v.block_index, {})
                    \cap RecordedBlocks(inodes, blocks) = {}
       /\ last'.op = "garbage_collect"
          => \A b \in BlockIds :
                Cardinality(RunsCovering(free_blocks_list', b)) <= 1]_vars

====
